---- MODULE Spec2Model ----
(***************************************************************************)
(* bnb-fly-proxy: an authenticated HTTP proxy in front of the Binance REST *)
(* API.  Two entry-point variants exist: src/index.js (day range in UTC)   *)
(* and src/unnamed/part_000 (day range in a configured timezone, plus a    *)
(* keep-alive ping that touches no request state).                         *)
(*                                                                         *)
(* Conventions of the model                                                *)
(*  - A JavaScript value is a record tagged by its type: Undefined,        *)
(*    Str(s), ArrayValue.  A JavaScript number is [nan, v]: NaN or Num(n). *)
(*  - Day-range timestamps are whole seconds: every value the code         *)
(*    computes there is a whole multiple of 1000 ms (00:00:00 and 23:59:59 *)
(*    of a day, shifted by whole minutes), so the code's millisecond value *)
(*    is 1000 times the modelled one.  3,600,000 ms is SecondsPerHour and  *)
(*    86,399,000 ms is LastSecondOfDay.                                    *)
(*  - Quote quantities are in hundredths: "10.5" is 1050.                  *)
(*  - A handler runs from one suspension point (an awaited upstream call)  *)
(*    to the next in one action.  fetch and the read of the body are one   *)
(*    upstream completion.  Handlers share no mutable state, so one        *)
(*    request is followed from arrival to its response.                    *)
(***************************************************************************)
EXTENDS Integers, Sequences, FiniteSets, TLC

VARIABLES
    variant,                \* which entry point runs: "index" or "part_000"
    PROXY_API_KEY,          \* process.env.PROXY_API_KEY || ""
    BINANCE_API_KEY,        \* process.env.BINANCE_API_KEY || ""
    BINANCE_API_SECRET,     \* process.env.BINANCE_API_SECRET || ""
    TIMEZONE_OFFSET_HOURS,  \* process.env.TIMEZONE_OFFSET_HOURS
    now,                    \* Date.now()
    req,                    \* the request: route, X-Proxy-Key header, query
    pc,                     \* the handler's position
    symbol,                 \* local of the price handlers
    range,                  \* { start, end } of /hedge-volume
    spotVolume,             \* local of /hedge-volume
    calls,                  \* upstream calls issued for the request
    results,                \* what each completed upstream call returned
    responses,              \* responses sent to the caller
    arg,                    \* input of the function under test (function specs)
    ret                     \* its result

vars == <<variant, PROXY_API_KEY, BINANCE_API_KEY, BINANCE_API_SECRET,
          TIMEZONE_OFFSET_HOURS, now, req, pc, symbol, range, spotVolume,
          calls, results, responses, arg, ret>>

config == <<variant, PROXY_API_KEY, BINANCE_API_KEY, BINANCE_API_SECRET,
            TIMEZONE_OFFSET_HOURS>>

-----------------------------------------------------------------------------
(* Bounds *)

\* the clock takes the values 0 .. MaxClock
MaxClock == 1
\* longest trade list given to the aggregation on its own
MaxTrades == 3
\* largest magnitude, in hours, of a configured timezone offset
MaxTzHours == 14

-----------------------------------------------------------------------------
(* JavaScript values *)

Undefined == [t |-> "undefined", s |-> ""]
Str(s) == [t |-> "string", s |-> s]
ArrayValue == [t |-> "array", s |-> ""]

\* ToBoolean of a request value: undefined and "" are falsy
Truthy(x) == ~(x.t = "undefined" \/ (x.t = "string" /\ x.s = ""))

\* a || b
OrElse(a, b) == IF Truthy(a) THEN a ELSE b

NaN == [nan |-> TRUE, v |-> 0]
Num(n) == [nan |-> FALSE, v |-> n]

\* a + b on numbers
JsAdd(a, b) == IF a.nan \/ b.nan THEN NaN ELSE Num(a.v + b.v)

-----------------------------------------------------------------------------
(* Day range *)

SecondsPerDay == 86400
SecondsPerHour == 3600
SecondsPerMinute == 60
LastSecondOfDay == 86399

\* a date parameter: the text "YYYY-MM-DD" of a calendar date, or other text
DateText(y, m, d) == [t |-> "string", s |-> "date", y |-> y, m |-> m, d |-> d]
IsDateText(x) == x.t = "string" /\ x.s = "date"

\* days from 1970-01-01 to the civil date y-m-d (ECMAScript MakeDay)
DaysFromCivil(y, m, d) ==
    LET yy  == IF m <= 2 THEN y - 1 ELSE y
        era == yy \div 400
        yoe == yy - era * 400
        mp  == IF m > 2 THEN m - 3 ELSE m + 9
        doy == (153 * mp + 2) \div 5 + d - 1
        doe == yoe * 365 + yoe \div 4 - yoe \div 100 + doy
    IN  era * 146097 + doe - 719468

\* new Date(dateStr + "T" + hh:mm:ss + offset).getTime(): NaN unless dateStr
\* is a date and the offset is a well-formed (sign)HH:MM
ParseIso(dateStr, secondOfDay, offset) ==
    IF IsDateText(dateStr) /\ offset.ok
    THEN Num(DaysFromCivil(dateStr.y, dateStr.m, dateStr.d) * SecondsPerDay
             + secondOfDay
             - offset.sign * (offset.hh * 60 + offset.mm) * SecondsPerMinute)
    ELSE NaN

\* the suffix "Z"
Zulu == [ok |-> TRUE, sign |-> 1, hh |-> 0, mm |-> 0]

\* getDayRangeUTC of index.js
getDayRangeUTC(dateStr) ==
    [start |-> ParseIso(dateStr, 0, Zulu),
     end   |-> ParseIso(dateStr, LastSecondOfDay, Zulu)]

\* the environment variable: unset, a number (in hundredths of an hour), or
\* text that is no number
TzUnset == [t |-> "undefined", h |-> 0]
TzNumber(h) == [t |-> "number", h |-> h]
TzText == [t |-> "text", h |-> 0]

DefaultTzHours == 8

\* Number(process.env.TIMEZONE_OFFSET_HOURS ?? 8), in hundredths of an hour
TzOffsetHours(env) ==
    CASE env.t = "undefined" -> Num(DefaultTzHours * 100)
      [] env.t = "number"    -> Num(env.h)
      [] OTHER               -> NaN

Abs(n) == IF n < 0 THEN -n ELSE n

\* Math.round(x / 100) for x >= 0
RoundHundredths(x) == (x + 50) \div 100

\* faulty variant: the sign of the offset is lost
OffsetStrDropSign(tzOffsetHours) ==
    IF tzOffsetHours.nan THEN [ok |-> FALSE, sign |-> -1, hh |-> 0, mm |-> 0]
    ELSE LET absOffset == Abs(tzOffsetHours.v)
             hh == absOffset \div 100
             mm == RoundHundredths((absOffset - hh * 100) * 60)
         IN  [ok |-> hh < 24 /\ mm < 60, sign |-> 1, hh |-> hh, mm |-> mm]

\* `${sign}${hh}:${mm}` with hh and mm padded to two digits, as the parts the
\* parser reads back; of NaN it is "-NaN:NaN", which is no offset, and HH is
\* an hour of the day, MM a minute
OffsetStr(tzOffsetHours) ==
    IF tzOffsetHours.nan THEN [ok |-> FALSE, sign |-> -1, hh |-> 0, mm |-> 0]
    ELSE LET sign == IF tzOffsetHours.v >= 0 THEN 1 ELSE -1
             absOffset == Abs(tzOffsetHours.v)
             hh == absOffset \div 100
             mm == RoundHundredths((absOffset - hh * 100) * 60)
         IN  [ok |-> hh < 24 /\ mm < 60, sign |-> sign, hh |-> hh, mm |-> mm]

\* getDayRange of part_000
getDayRange(dateStr, env) ==
    LET offsetStr == OffsetStr(TzOffsetHours(env))
    IN  [start |-> ParseIso(dateStr, 0, offsetStr),
         end   |-> ParseIso(dateStr, LastSecondOfDay, offsetStr)]

\* the resolver the deployed variant's /hedge-volume calls
DayRange(v, dateStr, env) ==
    IF v = "index" THEN getDayRangeUTC(dateStr) ELSE getDayRange(dateStr, env)

-----------------------------------------------------------------------------
(* Aggregation of a trade list *)

\* the quoteQty of a record: absent, null, "", a decimal text, other text,
\* or a JSON number
QtyMissing == [t |-> "undefined", n |-> 0]
QtyNull == [t |-> "null", n |-> 0]
QtyEmpty == [t |-> "empty", n |-> 0]
QtyDecimal(n) == [t |-> "decimal", n |-> n]
QtyText == [t |-> "text", n |-> 0]
QtyNumber(n) == [t |-> "number", n |-> n]

\* an element of the list: an object with its quoteQty, null, or a
\* primitive
Trade(q) == [t |-> "object", quoteQty |-> q]
NullTrade == [t |-> "null", quoteQty |-> QtyMissing]
\* a number or a string as an element: its quoteQty reads as undefined
PrimitiveTrade == [t |-> "primitive", quoteQty |-> QtyMissing]

\* ToBoolean(quoteQty)
QtyTruthy(q) ==
    CASE q.t \in {"undefined", "null", "empty"} -> FALSE
      [] q.t = "number" -> q.n # 0
      [] OTHER -> TRUE

\* Number(t.quoteQty || 0)
QuoteQtyNumber(t) ==
    LET q == t.quoteQty
    IN  IF ~QtyTruthy(q) THEN Num(0)
        ELSE IF q.t = "text" THEN NaN
        ELSE Num(q.n)

\* the loop `for (const t of trades) volume += Number(t.quoteQty || 0)` from
\* element i on: the volume, or threw when t is null (t.quoteQty of null)
RECURSIVE SumFrom(_, _, _)
SumFrom(trades, i, volume) ==
    IF i > Len(trades) THEN [threw |-> FALSE, volume |-> volume]
    ELSE IF trades[i].t = "null" THEN [threw |-> TRUE, volume |-> volume]
    ELSE SumFrom(trades, i + 1, JsAdd(volume, QuoteQtyNumber(trades[i])))

\* an upstream body as JSON.parse gives it: an object, null, a list of
\* trades, or text that does not parse
ObjectBody == [kind |-> "object", list |-> <<>>]
NullBody == [kind |-> "null", list |-> <<>>]
MalformedBody == [kind |-> "malformed", list |-> <<>>]
ListBody(l) == [kind |-> "list", list |-> l]

\* faulty variant: no Array.isArray guard, `for..of` over a non-list throws
SideVolumeUnguarded(body) ==
    IF body.kind = "list" THEN SumFrom(body.list, 1, Num(0))
    ELSE [threw |-> TRUE, volume |-> Num(0)]

\* let volume = 0; if (Array.isArray(trades)) { ...the loop... }
SideVolume(body) ==
    IF body.kind = "list" THEN SumFrom(body.list, 1, Num(0))
    ELSE [threw |-> FALSE, volume |-> Num(0)]

\* Number(volume.toFixed(2)): on hundredths the value itself, NaN of NaN
ToFixed2(x) == IF x.nan THEN NaN ELSE Num(x.v)

-----------------------------------------------------------------------------
(* Requests, upstream calls and responses *)

GoodKey == "s3cret"
BadKey == "wrong"

Routes == {"/price", "/futures-price", "/balance", "/futures-balance",
           "/hedge-volume"}
PriceRoutes == {"/price", "/futures-price"}
SignedRoutes == {"/balance", "/futures-balance", "/hedge-volume"}

Headers == {Undefined, Str(""), Str(GoodKey), Str(BadKey)}
QueryKeys == {Undefined, Str(""), Str(GoodKey), Str(BadKey), ArrayValue}
Symbols == {Undefined, Str("ethusdt"), ArrayValue}
Dates == {Undefined, Str(""), DateText(2025, 1, 1), Str("not-a-date")}

\* the requests to a route; a handler reads `symbol` only in the price routes
\* and `date` only in /hedge-volume
Requests(route) ==
    [route : {route}, header : Headers, key : QueryKeys,
     symbol : IF route \in PriceRoutes THEN Symbols ELSE {Undefined},
     date : IF route = "/hedge-volume" THEN Dates ELSE {Undefined}]

NoRequest == [route |-> "none", header |-> Undefined, key |-> Undefined,
              symbol |-> Undefined, date |-> Undefined]

SeqsUpTo(S, n) == UNION {[1..k -> S] : k \in 0..n}

\* what an upstream call comes back with: a transport failure, or a status
\* and a body
NoBody == [kind |-> "none", list |-> <<>>]
NetworkFailure == [failed |-> TRUE, status |-> 0, body |-> NoBody]
HttpResponse(status, body) == [failed |-> FALSE, status |-> status, body |-> body]

Statuses == {200, 400, 429}
\* the trade lists the handlers are given: empty, one trade, a quoteQty that
\* is no number, a null element, two trades
TradeLists == {<<>>,
               <<Trade(QtyDecimal(1050))>>,
               <<Trade(QtyText)>>,
               <<NullTrade>>,
               <<Trade(QtyDecimal(1050)), Trade(QtyDecimal(200))>>}
Bodies == {ObjectBody, NullBody, MalformedBody}
              \cup {ListBody(l) : l \in TradeLists}
Outcomes == {NetworkFailure} \cup {HttpResponse(s, b) : s \in Statuses, b \in Bodies}

\* r.ok
Ok(r) == r.status >= 200 /\ r.status <= 299

\* fetch rejected, or the body is no JSON (JSON.parse / r.json() throws)
Unreadable(r) == r.failed \/ r.body.kind = "malformed"

SpotTickerUrl == "https://api.binance.com/api/v3/ticker/price"
FuturesTickerUrl == "https://fapi.binance.com/fapi/v1/ticker/price"
SpotAccountUrl == "https://api.binance.com/api/v3/account"
FuturesBalanceUrl == "https://fapi.binance.com/fapi/v2/balance"
SpotTradesUrl == "https://api.binance.com/api/v3/myTrades"
FuturesTradesUrl == "https://fapi.binance.com/fapi/v1/userTrades"

RecvWindow == 5000

\* hmac(message, secret): the digest stands for the pair it was computed from
hmac(message, secret) == [message |-> message, secret |-> secret]
NoSignature == hmac(<<>>, "")

\* `recvWindow=5000&timestamp=${Date.now()}`
BalanceQs(ts) == << <<"recvWindow", Num(RecvWindow)>>, <<"timestamp", Num(ts)>> >>

\* `startTime=${start}&endTime=${end}&timestamp=${Date.now()}`
TradesQs(r, ts) ==
    << <<"startTime", r.start>>, <<"endTime", r.end>>, <<"timestamp", Num(ts)>> >>

\* `at` records the time at which the call was issued
PublicCall(url, sym) ==
    [url |-> url, symbol |-> sym, qs |-> <<>>, signature |-> NoSignature,
     apiKey |-> "", at |-> now]

\* `${url}?${qs}&signature=${signature}` with the X-MBX-APIKEY header
SignedCall(url, qs, signature) ==
    [url |-> url, symbol |-> "", qs |-> qs, signature |-> signature,
     apiKey |-> BINANCE_API_KEY, at |-> now]

Reply(status, error, shape, data, spot, fut) ==
    [status |-> status, error |-> error, shape |-> shape, data |-> data,
     spotHedgeVolumeUSDT |-> spot, futuresHedgeVolumeUSDT |-> fut]

ErrorReply(status, error) == Reply(status, error, "error", NoBody, Num(0), Num(0))
Unauthorized == ErrorReply(401, "Unauthorized")
MissingBinanceKeys == ErrorReply(400, "missing_binance_keys")
MissingDate == ErrorReply(400, "missing_date")
ProxyException == ErrorReply(500, "proxy_exception")
\* faulty variant: the upstream status is replaced by 502
BinanceErrorFixedStatus(r) ==
    Reply(502, "binance_error", "error", r.body, Num(0), Num(0))
BinanceError(r) == Reply(r.status, "binance_error", "error", r.body, Num(0), Num(0))
Shaped(shape, data) == Reply(200, "", shape, data, Num(0), Num(0))
HedgeVolume(spot, fut) ==
    Reply(200, "", "hedge-volume", NoBody, ToFixed2(spot), ToFixed2(fut))

-----------------------------------------------------------------------------
(* The handlers *)

\* faulty variant: no test of an unset PROXY_API_KEY
checkAuthAnyKeyWhenUnset(r) ==
    LET key == OrElse(r.header, r.key)
    IN  key = Str(PROXY_API_KEY)

\* checkAuth: the token is the header or else the `key` parameter; it passes
\* when the configured key is set and the token is that very string
checkAuth(r) ==
    LET key == OrElse(r.header, r.key)
    IN  ~(PROXY_API_KEY = "" \/ key # Str(PROXY_API_KEY))

\* faulty variant: the secret is not tested
MissingKeysOnlyApiKey == BINANCE_API_KEY = ""

\* !BINANCE_API_KEY || !BINANCE_API_SECRET
MissingKeys == BINANCE_API_KEY = "" \/ BINANCE_API_SECRET = ""

\* faulty variant: date === undefined
DateMissingOnlyUndefined(r) == r.date.t = "undefined"

\* !date
DateMissing(r) == ~Truthy(r.date)

\* faulty variant: the response is sent and the handler does not return
SendAndGoOn(reply) ==
    /\ responses' = Append(responses, reply)
    /\ UNCHANGED pc

\* res.status(..).json(..) as the handler's last step
Send(reply) ==
    /\ responses' = Append(responses, reply)
    /\ pc' = "sent"

\* await fetch(..): the call is issued and the handler is suspended at `at`
Fetch(call, at) ==
    /\ calls' = Append(calls, call)
    /\ pc' = at

\* (req.query.symbol || "BNBUSDT").toUpperCase(): a TypeError when the
\* parameter is no string (repeated or nested in the query)
ToUpperCase(str) == IF str = "ethusdt" THEN "ETHUSDT" ELSE str
SymbolOf(r) ==
    LET v == OrElse(r.symbol, Str("BNBUSDT"))
    IN  IF v.t = "string" THEN [threw |-> FALSE, symbol |-> ToUpperCase(v.s)]
        ELSE [threw |-> TRUE, symbol |-> ""]

\* the two price handlers up to their fetch
PriceArrives(r, url) ==
    /\ pc = "idle"
    /\ req' = r
    /\ IF ~checkAuth(r)
       THEN Send(Unauthorized) /\ UNCHANGED <<calls, symbol>>
       ELSE IF SymbolOf(r).threw
       THEN Send(ProxyException) /\ UNCHANGED <<calls, symbol>>
       ELSE /\ symbol' = SymbolOf(r).symbol
            /\ Fetch(PublicCall(url, SymbolOf(r).symbol), "price")
            /\ UNCHANGED responses
    /\ UNCHANGED <<config, now, range, spotVolume, results, arg, ret>>

\* ... and from the fetch on
PriceReturns(route, shape) ==
    /\ pc = "price"
    /\ req.route = route
    /\ \E r \in Outcomes :
        /\ results' = Append(results, r)
        /\ IF Unreadable(r) THEN Send(ProxyException)
           ELSE IF ~Ok(r) THEN Send(BinanceError(r))
           ELSE IF r.body.kind = "null" THEN Send(ProxyException)
           ELSE Send(Shaped(shape, r.body))
    /\ UNCHANGED <<config, now, req, symbol, range, spotVolume, calls, arg, ret>>

GetPrice == \E r \in Requests("/price") : PriceArrives(r, SpotTickerUrl)
PriceFetched == PriceReturns("/price", "spot")

GetFuturesPrice ==
    \E r \in Requests("/futures-price") : PriceArrives(r, FuturesTickerUrl)
FuturesPriceFetched == PriceReturns("/futures-price", "futures")

\* the two balance handlers up to their fetch
BalanceArrives(r, url) ==
    /\ pc = "idle"
    /\ req' = r
    /\ IF ~checkAuth(r) THEN Send(Unauthorized) /\ UNCHANGED calls
       ELSE IF MissingKeys THEN Send(MissingBinanceKeys) /\ UNCHANGED calls
       ELSE LET qs == BalanceQs(now)
                signature == hmac(qs, BINANCE_API_SECRET)
            IN  Fetch(SignedCall(url, qs, signature), "balance")
                   /\ UNCHANGED responses
    /\ UNCHANGED <<config, now, symbol, range, spotVolume, results, arg, ret>>

GetBalance == \E r \in Requests("/balance") : BalanceArrives(r, SpotAccountUrl)

\* data.balances of null throws; of a list it is undefined and [] is searched
BalanceFetched ==
    /\ pc = "balance"
    /\ req.route = "/balance"
    /\ \E r \in Outcomes :
        /\ results' = Append(results, r)
        /\ IF Unreadable(r) THEN Send(ProxyException)
           ELSE IF ~Ok(r) THEN Send(BinanceError(r))
           ELSE IF r.body.kind = "null" THEN Send(ProxyException)
           ELSE Send(Shaped("balance", r.body))
    /\ UNCHANGED <<config, now, req, symbol, range, spotVolume, calls, arg, ret>>

GetFuturesBalance ==
    \E r \in Requests("/futures-balance") : BalanceArrives(r, FuturesBalanceUrl)

FuturesBalanceFetched ==
    /\ pc = "balance"
    /\ req.route = "/futures-balance"
    /\ \E r \in Outcomes :
        /\ results' = Append(results, r)
        /\ IF Unreadable(r) THEN Send(ProxyException)
           ELSE IF ~Ok(r) THEN Send(BinanceError(r))
           ELSE Send(Shaped("balances", r.body))
    /\ UNCHANGED <<config, now, req, symbol, range, spotVolume, calls, arg, ret>>

\* faulty variant: the spot call's query string and signature are sent again
FuturesTradesSignedReused(r) ==
    SignedCall(FuturesTradesUrl, calls[1].qs, calls[1].signature)

\* the query string and signature of the second trade-history call
FuturesTradesSigned(r) ==
    LET futQs == TradesQs(r, now)
        futSig == hmac(futQs, BINANCE_API_SECRET)
    IN  SignedCall(FuturesTradesUrl, futQs, futSig)

\* /hedge-volume up to the spot trade-history call
GetHedgeVolume ==
    /\ pc = "idle"
    /\ \E r \in Requests("/hedge-volume") :
        /\ req' = r
        /\ IF ~checkAuth(r)
           THEN Send(Unauthorized) /\ UNCHANGED <<calls, range>>
           ELSE IF MissingKeys
           THEN Send(MissingBinanceKeys) /\ UNCHANGED <<calls, range>>
           ELSE IF DateMissing(r)
           THEN Send(MissingDate) /\ UNCHANGED <<calls, range>>
           ELSE LET rg == DayRange(variant, r.date, TIMEZONE_OFFSET_HOURS)
                    spotQs == TradesQs(rg, now)
                    spotSig == hmac(spotQs, BINANCE_API_SECRET)
                IN  /\ range' = rg
                    /\ Fetch(SignedCall(SpotTradesUrl, spotQs, spotSig), "spot")
                    /\ UNCHANGED responses
    /\ UNCHANGED <<config, now, symbol, spotVolume, results, arg, ret>>

\* ... from the spot trades to the futures trade-history call
SpotTradesFetched ==
    /\ pc = "spot"
    /\ \E r \in Outcomes :
        /\ results' = Append(results, r)
        /\ IF Unreadable(r) \/ SideVolume(r.body).threw
           THEN Send(ProxyException) /\ UNCHANGED <<calls, spotVolume>>
           ELSE /\ spotVolume' = SideVolume(r.body).volume
                /\ Fetch(FuturesTradesSigned(range), "futures")
                /\ UNCHANGED responses
    /\ UNCHANGED <<config, now, req, symbol, range, arg, ret>>

\* ... and from the futures trades to the response
FuturesTradesFetched ==
    /\ pc = "futures"
    /\ \E r \in Outcomes :
        /\ results' = Append(results, r)
        /\ IF Unreadable(r) \/ SideVolume(r.body).threw
           THEN Send(ProxyException)
           ELSE Send(HedgeVolume(spotVolume, SideVolume(r.body).volume))
    /\ UNCHANGED <<config, now, req, symbol, range, spotVolume, calls, arg, ret>>

\* time passes
Tick ==
    /\ now < MaxClock
    /\ now' = now + 1
    /\ UNCHANGED <<config, req, pc, symbol, range, spotVolume, calls, results,
                   responses, arg, ret>>

NoArg == [fn |-> "none"]

Init ==
    /\ variant \in {"index", "part_000"}
    /\ PROXY_API_KEY \in {"", GoodKey}
    /\ BINANCE_API_KEY \in {"", "api-key"}
    /\ BINANCE_API_SECRET \in {"", "api-secret"}
    /\ TIMEZONE_OFFSET_HOURS \in {TzUnset, TzNumber(-350)}
    /\ now = 0
    /\ req = NoRequest
    /\ pc = "idle"
    /\ symbol = ""
    /\ range = [start |-> Num(0), end |-> Num(0)]
    /\ spotVolume = Num(0)
    /\ calls = <<>>
    /\ results = <<>>
    /\ responses = <<>>
    /\ arg = NoArg
    /\ ret = NoArg

Next ==
    \/ GetPrice
    \/ PriceFetched
    \/ GetFuturesPrice
    \/ FuturesPriceFetched
    \/ GetBalance
    \/ BalanceFetched
    \/ GetFuturesBalance
    \/ FuturesBalanceFetched
    \/ GetHedgeVolume
    \/ SpotTradesFetched
    \/ FuturesTradesFetched
    \/ Tick

Spec == Init /\ [][Next]_vars

\* every awaited upstream call completes
Completes ==
    \/ PriceFetched
    \/ FuturesPriceFetched
    \/ BalanceFetched
    \/ FuturesBalanceFetched
    \/ SpotTradesFetched
    \/ FuturesTradesFetched

FairSpec == Spec /\ WF_vars(Completes)

-----------------------------------------------------------------------------
(* The day-range resolver and the aggregation on their own *)

RangeDates == {DateText(2025, 1, 1), DateText(2024, 2, 29), DateText(2025, 12, 31),
               DateText(1970, 1, 1), DateText(2000, 3, 1), DateText(2025, 12, 23),
               Str("not-a-date")}

\* unset, no number, every quarter of an hour up to MaxTzHours, and two
\* offsets that are no whole minutes
TzChoices ==
    {TzUnset, TzText, TzNumber(533), TzNumber(-1099)}
        \cup {TzNumber(q * 25) : q \in (-4 * MaxTzHours)..(4 * MaxTzHours)}

InitRange ==
    /\ variant \in {"index", "part_000"}
    /\ PROXY_API_KEY = GoodKey
    /\ BINANCE_API_KEY = "api-key"
    /\ BINANCE_API_SECRET = "api-secret"
    /\ TIMEZONE_OFFSET_HOURS \in TzChoices
    /\ now = 0
    /\ req = NoRequest
    /\ pc = "call"
    /\ symbol = ""
    /\ range = [start |-> Num(0), end |-> Num(0)]
    /\ spotVolume = Num(0)
    /\ calls = <<>>
    /\ results = <<>>
    /\ responses = <<>>
    /\ arg \in {[fn |-> "getDayRange", dateStr |-> d] : d \in RangeDates}
    /\ ret = NoArg

\* const { start, end } = getDayRange(date)
ResolveDayRange ==
    /\ pc = "call"
    /\ arg.fn = "getDayRange"
    /\ ret' = DayRange(variant, arg.dateStr, TIMEZONE_OFFSET_HOURS)
    /\ pc' = "returned"
    /\ UNCHANGED <<config, now, req, symbol, range, spotVolume, calls, results,
                   responses, arg>>

SpecRange == InitRange /\ [][ResolveDayRange]_vars

AggTrades == {Trade(QtyMissing), Trade(QtyNull), Trade(QtyEmpty),
              Trade(QtyDecimal(1050)), Trade(QtyDecimal(200)), Trade(QtyText),
              Trade(QtyNumber(0)), Trade(QtyNumber(300)), NullTrade,
              PrimitiveTrade}

InitAgg ==
    /\ variant \in {"index", "part_000"}
    /\ PROXY_API_KEY = GoodKey
    /\ BINANCE_API_KEY = "api-key"
    /\ BINANCE_API_SECRET = "api-secret"
    /\ TIMEZONE_OFFSET_HOURS = TzUnset
    /\ now = 0
    /\ req = NoRequest
    /\ pc = "call"
    /\ symbol = ""
    /\ range = [start |-> Num(0), end |-> Num(0)]
    /\ spotVolume = Num(0)
    /\ calls = <<>>
    /\ results = <<>>
    /\ responses = <<>>
    /\ arg \in {[fn |-> "aggregate", body |-> b] :
                   b \in {ObjectBody, NullBody}
                       \cup {ListBody(l) : l \in SeqsUpTo(AggTrades, MaxTrades)}}
    /\ ret = NoArg

\* the aggregation of one side's parsed body
Aggregate ==
    /\ pc = "call"
    /\ arg.fn = "aggregate"
    /\ ret' = SideVolume(arg.body)
    /\ pc' = "returned"
    /\ UNCHANGED <<config, now, req, symbol, range, spotVolume, calls, results,
                   responses, arg>>

SpecAgg == InitAgg /\ [][Aggregate]_vars

-----------------------------------------------------------------------------
(* Properties *)

\* the token of the request: the X-Proxy-Key header when it is a non-empty
\* string, or else the `key` query parameter
Token == IF req.header.t = "string" /\ req.header.s # "" THEN req.header ELSE req.key

\* the configured key is non-empty and the token is exactly it
Authorized == PROXY_API_KEY # "" /\ Token.t = "string" /\ Token.s = PROXY_API_KEY

Arrived == req.route \in Routes

CredentialsAbsent == BINANCE_API_KEY = "" \/ BINANCE_API_SECRET = ""

\* C1: a request to any of the five routes passes checkAuth exactly when the
\* configured PROXY_API_KEY is non-empty and the token equals it; every other
\* request ends with the 401 Unauthorized response and issues no upstream call.
C1_AuthExactMatch ==
    Arrived =>
        IF Authorized
        THEN \A i \in 1..Len(responses) : responses[i].error # "Unauthorized"
        ELSE responses = <<Unauthorized>> /\ calls = <<>> /\ pc = "sent"

\* C1 witness: a request let through on its `key` parameter has issued its call
C1_Witness ==
    /\ Arrived /\ Authorized /\ req.header = Undefined
    /\ Len(calls) = 1

\* C2 as claimed: an authenticated /hedge-volume request without `date` ends
\* with 400 missing_date and no upstream call, whether or not the exchange
\* credentials are configured.
C2_MissingDateBeforeCredentials ==
    (req.route = "/hedge-volume" /\ Authorized /\ ~Truthy(req.date))
        => responses = <<MissingDate>> /\ calls = <<>>

\* C2 as amended: an authenticated /hedge-volume request without `date` issues
\* no upstream call and ends with 400: missing_binance_keys when the exchange
\* credentials are absent (they are checked first), missing_date otherwise.
C2_MissingDateAfterCredentials ==
    (req.route = "/hedge-volume" /\ Authorized /\ ~Truthy(req.date))
        => /\ calls = <<>>
           /\ pc = "sent"
           /\ responses = <<IF CredentialsAbsent THEN MissingBinanceKeys
                            ELSE MissingDate>>

\* C2 witness: an empty `date` with the credentials configured was refused
C2_Witness ==
    /\ req.route = "/hedge-volume" /\ Authorized /\ ~CredentialsAbsent
    /\ req.date = Str("")
    /\ responses = <<MissingDate>>

\* C3 as claimed: with the exchange credentials absent, every authenticated
\* request to a signed route ends with 400 missing_binance_keys and no
\* upstream call, and every authenticated price request issues its public
\* upstream call.
C3_CredentialsGateAllPrice ==
    (Arrived /\ Authorized /\ CredentialsAbsent) =>
        IF req.route \in SignedRoutes
        THEN responses = <<MissingBinanceKeys>> /\ calls = <<>>
        ELSE Len(calls) = 1 /\ calls[1].signature = NoSignature

\* C3 as amended: with the exchange credentials absent, every authenticated
\* request to a signed route ends with 400 missing_binance_keys and no
\* upstream call; an authenticated price request is never answered with
\* missing_binance_keys and issues its public upstream call whenever its
\* `symbol` parameter is absent or a single string (any other `symbol` ends
\* the request with 500 proxy_exception before the call).
C3_CredentialsGate ==
    (Arrived /\ Authorized /\ CredentialsAbsent) =>
        IF req.route \in SignedRoutes
        THEN responses = <<MissingBinanceKeys>> /\ calls = <<>> /\ pc = "sent"
        ELSE /\ \A i \in 1..Len(responses) : responses[i] # MissingBinanceKeys
             /\ IF req.symbol.t \in {"undefined", "string"}
                THEN /\ Len(calls) = 1
                     /\ calls[1].signature = NoSignature
                     /\ calls[1].apiKey = ""
                     /\ calls[1].url = IF req.route = "/price" THEN SpotTickerUrl
                                       ELSE FuturesTickerUrl
                ELSE calls = <<>> /\ responses = <<ProxyException>>

\* C3 witness: without credentials a price request was answered from upstream
C3_Witness ==
    /\ Arrived /\ Authorized /\ CredentialsAbsent
    /\ req.route = "/futures-price"
    /\ Len(calls) = 1
    /\ Len(responses) = 1 /\ responses[1].status = 200

\* an upstream call that came back with a status outside 200..299
NonOk(r) == ~r.failed /\ ~Ok(r)

\* the one response has the upstream status and carries the upstream body
Relayed(r) ==
    /\ Len(responses) = 1
    /\ responses[1].status = r.status
    /\ responses[1].error = "binance_error"
    /\ responses[1].data = r.body

\* C4 as claimed: on every route, a non-2xx upstream response is relayed with
\* its status and the body {error: "binance_error", data: <upstream body>}.
C4_RelayOnEveryRoute ==
    pc = "sent" =>
        \A i \in 1..Len(results) :
            NonOk(results[i]) => Relayed(results[i])

\* C4 as amended: on /price, /futures-price, /balance and /futures-balance a
\* non-2xx upstream response whose body parses as JSON is relayed with its
\* status and the body {error: "binance_error", data}, and one whose body does
\* not parse ends in 500 proxy_exception; /hedge-volume never reads the
\* upstream status: it never sends binance_error, and a non-2xx trade-history
\* response is treated by its body alone, as a 2xx one is.
C4_RelayOnSingleCallRoutes ==
    /\ (pc = "sent" /\ req.route # "/hedge-volume") =>
          \A i \in 1..Len(results) :
              NonOk(results[i]) =>
                  IF results[i].body.kind = "malformed"
                  THEN responses = <<ProxyException>>
                  ELSE Relayed(results[i])
    /\ req.route = "/hedge-volume" =>
          /\ \A i \in 1..Len(responses) : responses[i].error # "binance_error"
          /\ (Len(results) >= 1 /\ NonOk(results[1])
                 /\ results[1].body.kind \in {"object", "null"})
                => Len(calls) = 2

\* C4 witness: a 429 with a JSON body came back on /balance and was relayed
C4_Witness ==
    /\ req.route = "/balance" /\ pc = "sent"
    /\ Len(results) = 1 /\ results[1].status = 429
    /\ results[1].body.kind = "object"
    /\ responses[1].status = 429

\* a side's call failed, or its body is no well-formed list
SideFailed(r) == r.failed \/ r.body.kind # "list"

\* C5 as claimed: in /hedge-volume a side whose call fails or returns
\* something that is no well-formed list never fails the request: it ends
\* with the 200 {date, spotHedgeVolumeUSDT, futuresHedgeVolumeUSDT} response.
C5_NoSideFailsRequest ==
    (req.route = "/hedge-volume" /\ pc = "sent"
        /\ \E i \in 1..Len(results) : SideFailed(results[i]))
      => responses[1].status = 200 /\ responses[1].shape = "hedge-volume"

\* C5 as amended: in /hedge-volume only a JSON body that is not a list is
\* tolerated: that side's volume is 0 and the handler goes on (after spot, to
\* the futures call; after futures, to the 200 response); a transport failure
\* or a body that is no JSON, on either side, ends the request with 500
\* proxy_exception; in every 200 response each side's value is computed from
\* that side's own body.
C5_NonListBodyIsZero ==
    req.route = "/hedge-volume" =>
        /\ (Len(results) >= 1 /\ ~Unreadable(results[1])
               /\ results[1].body.kind # "list")
              => Len(calls) = 2 /\ spotVolume = Num(0)
        /\ (Len(results) = 2 /\ ~Unreadable(results[2])
               /\ results[2].body.kind # "list")
              => /\ pc = "sent"
                 /\ responses = <<HedgeVolume(spotVolume, Num(0))>>
        /\ (\E i \in 1..Len(results) : Unreadable(results[i]))
              => pc = "sent" /\ responses = <<ProxyException>>
        /\ (Len(responses) = 1 /\ responses[1].status = 200)
              => /\ Len(results) = 2
                 /\ responses[1].spotHedgeVolumeUSDT
                       = ToFixed2(SideVolume(results[1].body).volume)
                 /\ responses[1].futuresHedgeVolumeUSDT
                       = ToFixed2(SideVolume(results[2].body).volume)

\* C5 witness: spot returned an error object, futures a list, and the 200
\* response carries 0 and the futures sum
C5_Witness ==
    /\ req.route = "/hedge-volume" /\ pc = "sent"
    /\ Len(results) = 2
    /\ results[1].body.kind = "object" /\ NonOk(results[1])
    /\ results[2].body = ListBody(<<Trade(QtyDecimal(1050))>>)
    /\ responses = <<HedgeVolume(Num(0), Num(1050))>>

SignedUrls == {SpotAccountUrl, FuturesBalanceUrl, SpotTradesUrl, FuturesTradesUrl}

\* the values of parameter `name` in a query string
Param(qs, name) == {qs[i][2] : i \in {j \in 1..Len(qs) : qs[j][1] = name}}

\* the call signs its own query string, which carries the time of the call
FreshlySigned(c) ==
    /\ Param(c.qs, "timestamp") = {Num(c.at)}
    /\ c.signature = hmac(c.qs, BINANCE_API_SECRET)
    /\ c.apiKey = BINANCE_API_KEY

C7_InvalidDateRejected ==
    (req.route = "/hedge-volume" /\ Authorized /\ ~CredentialsAbsent
        /\ Truthy(req.date) /\ ~IsDateText(req.date))
      => /\ calls = <<>>
         /\ Len(responses) = 1 /\ responses[1].status >= 400

\* 00:00:00Z of the date, in seconds
UtcMidnight(d) == DaysFromCivil(d.y, d.m, d.d) * SecondsPerDay

\* the configured offset is h hours, whole or half; in hundredths of an hour
HalfHours(env) == env.t = "undefined" \/ (env.t = "number" /\ env.h % 50 = 0)
Hundredths(env) == IF env.t = "undefined" THEN DefaultTzHours * 100 ELSE env.h

\* start = midnight - h hours, end = start + 23:59:59
ShiftedDay(d, h100) ==
    LET start == UtcMidnight(d) - (h100 * SecondsPerHour) \div 100
    IN  [start |-> Num(start), end |-> Num(start + LastSecondOfDay)]

\* C8 as claimed: for every valid date and every offset of h whole or half
\* hours (+8 when unset), both variants' resolver gives start = 00:00:00Z of
\* the date - h hours and end = start + 23:59:59.
C8_OffsetDayBothVariants ==
    (pc = "returned" /\ IsDateText(arg.dateStr) /\ HalfHours(TIMEZONE_OFFSET_HOURS))
      => ret = ShiftedDay(arg.dateStr, Hundredths(TIMEZONE_OFFSET_HOURS))

\* C8 as amended: for every valid date, getDayRange of the timezone-aware
\* variant gives, for every offset of h whole or half hours (+8 when unset),
\* start = 00:00:00Z of the date - h hours and end = start + 23:59:59;
\* getDayRangeUTC of the other variant ignores the configured offset and gives
\* start = 00:00:00Z of the date and end = start + 23:59:59.
C8_OffsetDay ==
    (pc = "returned" /\ IsDateText(arg.dateStr)) =>
        IF variant = "part_000"
        THEN HalfHours(TIMEZONE_OFFSET_HOURS)
                => ret = ShiftedDay(arg.dateStr, Hundredths(TIMEZONE_OFFSET_HOURS))
        ELSE ret = ShiftedDay(arg.dateStr, 0)

\* C8 witness: 2025-01-01 at -03:30 starts at 03:30:00Z of that day
C8_Witness ==
    /\ pc = "returned" /\ variant = "part_000"
    /\ arg.dateStr = DateText(2025, 1, 1)
    /\ TIMEZONE_OFFSET_HOURS = TzNumber(-350)
    /\ ret.start = Num(1735702200)

\* what the record contributes as claimed: its quoteQty when that is a
\* number or the text of one, 0 otherwise
ClaimedQty(t) ==
    IF t.t = "object" /\ t.quoteQty.t \in {"decimal", "number"}
    THEN t.quoteQty.n ELSE 0

RECURSIVE ClaimedSum(_)
ClaimedSum(l) == IF l = <<>> THEN 0 ELSE ClaimedQty(Head(l)) + ClaimedSum(Tail(l))

\* C9: for every list of trade records the per-side volume is the sum of the
\* numeric quoteQty values, every other record counting 0; the aggregation
\* never throws and the total is never NaN.
C9_SumIgnoresNonNumeric ==
    (pc = "returned" /\ arg.body.kind = "list")
      => ~ret.threw /\ ret.volume = Num(ClaimedSum(arg.body.list))

\* C10: a request gets exactly one response once its upstream calls complete,
\* and after the response the handler issues no call and sends nothing more.
C10_OneResponse ==
    /\ [](Len(responses) <= 1)
    /\ []((pc = "sent") <=> (Len(responses) = 1))
    /\ [][pc = "sent" => UNCHANGED <<pc, calls, responses, results>>]_vars
    /\ (Arrived ~> (pc = "sent" /\ Len(responses) = 1))

\* C10 witness: /hedge-volume answered after both of its calls
C10_Witness ==
    /\ pc = "sent" /\ Len(responses) = 1
    /\ Len(calls) = 2 /\ Len(results) = 2

====
